---- MODULE Spec2Model ----
(***************************************************************************)
(* Model of cec_auto_audio.py: the watch loop of main() that reads the     *)
(* cec-client trace line by line, tracks one pending console activation    *)
(* and injects "tx 15:70:00:00" when the Denon does not confirm in time.   *)
(*                                                                         *)
(* Lines are sequences of one-character strings.  The clock (time.time())  *)
(* is counted in units of half a second, so that PENDING_TIMEOUT_SEC (0.5) *)
(* is 1 and MIN_INJECTION_INTERVAL_SEC (3.0) is 6.                         *)
(***************************************************************************)
EXTENDS Integers, Sequences, FiniteSets, TLC

\* ---- CONFIG (lines 24-41) ------------------------------------------------

CONSOLE_LAS == {4, 8, 11}

DENON_LA == 5

\* 0.5 s, in half seconds
PENDING_TIMEOUT_SEC == 1

\* 3.0 s, in half seconds
MIN_INJECTION_INTERVAL_SEC == 6

\* ---- bounds of the model -------------------------------------------------

\* the clock runs from 0 to MaxTime half seconds
MaxTime == 12

\* console announcements accepted in one run
MaxAnnouncements == 2

\* Python's None
None == [none |-> TRUE]

\* ---- characters ----------------------------------------------------------

HexLower ==
  <<"0", "1", "2", "3", "4", "5", "6", "7", "8", "9", "a", "b", "c", "d", "e", "f">>

HexUpper ==
  <<"0", "1", "2", "3", "4", "5", "6", "7", "8", "9", "A", "B", "C", "D", "E", "F">>

\* the class [0-9A-Fa-f]
IsHex(c) ==
  \E i \in 1..16 : HexLower[i] = c \/ HexUpper[i] = c

\* the class \s
IsSpace(c) ==
  c \in {" ", "\t"}

\* the class [0-9A-Fa-f:]
IsHexOrColon(c) ==
  IsHex(c) \/ c = ":"

HexVal(c) ==
  (CHOOSE i \in 1..16 : HexLower[i] = c \/ HexUpper[i] = c) - 1

\* int(s, 16) for a string of hex digits
RECURSIVE IntHex(_)
IntHex(s) ==
  IF s = <<>> THEN 0
  ELSE IntHex(SubSeq(s, 1, Len(s) - 1)) * 16 + HexVal(s[Len(s)])

\* ---- FRAME_RE and parse_frame (lines 44-77) --------------------------------

\* first index >= j of the text that does not satisfy the class, Len(text)+1 if none
RECURSIVE SpaceRunEnd(_, _)
SpaceRunEnd(text, j) ==
  IF j <= Len(text) /\ IsSpace(text[j]) THEN SpaceRunEnd(text, j + 1) ELSE j

RECURSIVE DataRunEnd(_, _)
DataRunEnd(text, j) ==
  IF j <= Len(text) /\ IsHexOrColon(text[j]) THEN DataRunEnd(text, j + 1) ELSE j

\* FRAME_RE with \s* for \s+
MatchAt_OptionalSpace(text, i) ==
  LET h == SpaceRunEnd(text, i + 2)
  IN  IF /\ i + 1 <= Len(text)
         /\ text[i] = ">"
         /\ text[i + 1] = ">"
         /\ h + 4 <= Len(text)
         /\ IsHex(text[h])
         /\ IsHex(text[h + 1])
         /\ text[h + 2] = ":"
         /\ IsHex(text[h + 3])
         /\ IsHex(text[h + 4])
      THEN h
      ELSE 0

\* FRAME_RE matched with its first character at index i: the index of the
\* header byte, 0 if the pattern does not match there
MatchAt(text, i) ==
  LET h == SpaceRunEnd(text, i + 2)
  IN  IF /\ i + 1 <= Len(text)
         /\ text[i] = ">"
         /\ text[i + 1] = ">"
         /\ h > i + 2
         /\ h + 4 <= Len(text)
         /\ IsHex(text[h])
         /\ IsHex(text[h + 1])
         /\ text[h + 2] = ":"
         /\ IsHex(text[h + 3])
         /\ IsHex(text[h + 4])
      THEN h
      ELSE 0

\* FRAME_RE.search(text): the header index of the leftmost match, 0 if none
RECURSIVE SearchFrom(_, _)
SearchFrom(text, i) ==
  IF i > Len(text) THEN 0
  ELSE IF MatchAt(text, i) # 0 THEN MatchAt(text, i)
  ELSE SearchFrom(text, i + 1)

\* m.group(3): the optional data bytes after the opcode, <<>> when the group
\* did not take part in the match
DataRaw(text, h) ==
  IF /\ h + 6 <= Len(text)
     /\ text[h + 5] = ":"
     /\ IsHexOrColon(text[h + 6])
  THEN SubSeq(text, h + 6, DataRunEnd(text, h + 6) - 1)
  ELSE <<>>

\* data_raw.split(":") without the empty pieces, each piece through int(b, 16)
RECURSIVE SplitBytes(_, _)
SplitBytes(raw, tok) ==
  IF raw = <<>>
  THEN IF tok = <<>> THEN <<>> ELSE <<IntHex(tok)>>
  ELSE IF raw[1] = ":"
       THEN (IF tok = <<>> THEN <<>> ELSE <<IntHex(tok)>>)
              \o SplitBytes(Tail(raw), <<>>)
       ELSE SplitBytes(Tail(raw), Append(tok, raw[1]))

\* lines 66-77 with the two halves of the header exchanged
parse_frame_SwappedNibbles(text) ==
  LET h == SearchFrom(text, 1)
  IN  IF h = 0 THEN None
      ELSE LET header == IntHex(SubSeq(text, h, h + 1))
               opcode == IntHex(SubSeq(text, h + 3, h + 4))
           IN  [src_la |-> header % 16,
                dst_la |-> header \div 16,
                opcode |-> opcode,
                data   |-> SplitBytes(DataRaw(text, h), <<>>)]

parse_frame(text) ==
  LET h == SearchFrom(text, 1)
  IN  IF h = 0 THEN None
      ELSE LET header == IntHex(SubSeq(text, h, h + 1))
               opcode == IntHex(SubSeq(text, h + 3, h + 4))
           IN  [src_la |-> header \div 16,
                dst_la |-> header % 16,
                opcode |-> opcode,
                data   |-> SplitBytes(DataRaw(text, h), <<>>)]

\* ---- the trace lines cec-client is taken to print ----------------------------

\* ">> 4f:82:10:00": console 4 announces active source, phys 10:00
LineConsole4 ==
  <<">", ">", " ", "4", "f", ":", "8", "2", ":", "1", "0", ":", "0", "0">>

\* ">> 8F:82:20:00": console 8 announces active source, upper-case hex
LineConsole8 ==
  <<">", ">", " ", "8", "F", ":", "8", "2", ":", "2", "0", ":", "0", "0">>

\* "T:  >> bf:82:36:00": console B announces active source, inside a TRAFFIC line
LineConsoleB ==
  <<"T", ":", " ", " ", ">", ">", " ", "b", "f", ":", "8", "2", ":", "3", "6", ":", "0", "0">>

\* ">> 4f:82:3A:0B": console 4 announces active source, phys 3a:0b, in upper case
LineConsole4Upper ==
  <<">", ">", " ", "4", "f", ":", "8", "2", ":", "3", "A", ":", "0", "B">>

\* ">> 0f:82:00:00": the TV (not a console) announces active source
LineTvActive ==
  <<">", ">", " ", "0", "f", ":", "8", "2", ":", "0", "0", ":", "0", "0">>

\* ">> 5f:72:01": Denon Set System Audio Mode on
LineDenonOn ==
  <<">", ">", " ", "5", "f", ":", "7", "2", ":", "0", "1">>

\* ">> 5f:72:00": Denon Set System Audio Mode off
LineDenonOff ==
  <<">", ">", " ", "5", "f", ":", "7", "2", ":", "0", "0">>

\* ">> 5f:72": opcode 0x72 without payload
LineDenonBare ==
  <<">", ">", " ", "5", "f", ":", "7", "2">>

\* ">> 4f:82:10": active source with one payload byte
LineShortActive ==
  <<">", ">", " ", "4", "f", ":", "8", "2", ":", "1", "0">>

\* ">> 45:82:10:00": opcode 0x82 sent to the Denon, not broadcast
LineDirected ==
  <<">", ">", " ", "4", "5", ":", "8", "2", ":", "1", "0", ":", "0", "0">>

\* ">> 0f:36": standby broadcast
LineStandby ==
  <<">", ">", " ", "0", "f", ":", "3", "6">>

\* "<< 15:70:00:00": an outgoing frame echoed by cec-client
LineOutgoing ==
  <<"<", "<", " ", "1", "5", ":", "7", "0", ":", "0", "0", ":", "0", "0">>

\* ">>4f:82:10:00": marker without whitespace
LineNoSpace ==
  <<">", ">", "4", "f", ":", "8", "2", ":", "1", "0", ":", "0", "0">>

\* ">> 4f:8": opcode cut short
LineTruncated ==
  <<">", ">", " ", "4", "f", ":", "8">>

\* ">> 4g:82:10:00": header byte is not hexadecimal
LineNotHex ==
  <<">", ">", " ", "4", "g", ":", "8", "2", ":", "1", "0", ":", "0", "0">>

\* empty line
LineEmpty ==
  <<>>

\* the lines the watch loop is fed
Lines ==
  {LineConsole4,
   LineConsole8,
   LineConsoleB,
   LineConsole4Upper,
   LineTvActive,
   LineDenonOn,
   LineDenonOff,
   LineShortActive,
   LineOutgoing,
   LineNoSpace}

\* ---- lines for exercising parse_frame and the classification ---------------

\* the characters of [0-9A-Fa-f]
HexDigits ==
  {HexLower[i] : i \in 1..16} \cup {HexUpper[i] : i \in 1..16}

\* ">> "
Marker ==
  <<">", ">", " ">>

\* ":82:10:00"
TailActive ==
  <<":", "8", "2", ":", "1", "0", ":", "0", "0">>

\* ">> XY:82:10:00" for every spelling XY of every header byte
HeaderLines ==
  {Marker \o <<hi, lo>> \o TailActive : hi \in HexDigits, lo \in HexDigits}

\* headers 5f, 0f, 4f, 45, 50
SampleHeaders ==
  {<<"5", "f">>, <<"0", "f">>, <<"4", "f">>, <<"4", "5">>, <<"5", "0">>}

\* opcodes 72, 82, 36
SampleOpcodes ==
  {<<"7", "2">>, <<"8", "2">>, <<"3", "6">>}

\* payloads: none, ":01", ":00", ":10", ":10:00", ":01:00", ":10:00:00"
SamplePayloads ==
  {<<>>, <<":", "0", "1">>, <<":", "0", "0">>, <<":", "1", "0">>, <<":", "1", "0", ":", "0", "0">>, <<":", "0", "1", ":", "0", "0">>, <<":", "1", "0", ":", "0", "0", ":", "0", "0">>}

\* ">> HH:OO" followed by the payload, for the headers, opcodes and payloads above
ClassLines ==
  {Marker \o hd \o <<":">> \o op \o pl :
     hd \in SampleHeaders, op \in SampleOpcodes, pl \in SamplePayloads}

\* ">> 4f:82:100:00": a payload token of three digits
LineWideByte ==
  <<">", ">", " ", "4", "f", ":", "8", "2", ":", "1", "0", "0", ":", "0", "0">>

\* ">> 4f:82:1:0": payload tokens of one digit
LineOneDigit ==
  <<">", ">", " ", "4", "f", ":", "8", "2", ":", "1", ":", "0">>

\* ">> 4f:82:10::00": an empty payload token
LineEmptyToken ==
  <<">", ">", " ", "4", "f", ":", "8", "2", ":", "1", "0", ":", ":", "0", "0">>

\* ">> 0f:82:10:00:": a colon after the last payload token
LineTrailingColon ==
  <<">", ">", " ", "0", "f", ":", "8", "2", ":", "1", "0", ":", "0", "0", ":">>

\* every line parse_frame is exercised on
SampleLines ==
  HeaderLines \cup ClassLines
    \cup {LineConsole4, LineConsole8, LineConsoleB, LineTvActive, LineDenonOn,
          LineDenonOff, LineDenonBare, LineShortActive, LineDirected, LineStandby,
          LineOutgoing, LineNoSpace, LineTruncated, LineNotHex, LineEmpty,
          LineWideByte, LineOneDigit, LineEmptyToken, LineTrailingColon}


\* frame = parse_frame(line), for every line the loop can be given
Frames ==
  [l \in Lines \cup SampleLines |-> parse_frame(l)]

\* ---- classification (lines 127-133 and 151-152) -----------------------------

\* 0x72 Set System Audio Mode, 0x82 Active Source
IsSetSystemAudioModeOn(frame) ==
  /\ frame.src_la = DENON_LA
  /\ frame.dst_la = 15
  /\ frame.opcode = 114
  /\ frame.data # <<>>
  /\ frame.data[1] = 1

\* line 152 without the test of the destination
IsActiveSource_AnyDest(frame) ==
  /\ frame.opcode = 130
  /\ Len(frame.data) >= 2

IsActiveSource(frame) ==
  /\ frame.dst_la = 15
  /\ frame.opcode = 130
  /\ Len(frame.data) >= 2

\* format(n, "x")
RECURSIVE HexStr(_)
HexStr(n) ==
  IF n < 16 THEN <<HexLower[n + 1]>>
  ELSE HexStr(n \div 16) \o <<HexLower[(n % 16) + 1]>>

\* format(n, "02X")
Hex02_Upper(n) ==
  <<HexUpper[(n \div 16) + 1], HexUpper[(n % 16) + 1]>>

\* format(n, "02x")
Hex02(n) ==
  IF n < 16 THEN <<"0">> \o HexStr(n) ELSE HexStr(n)

\* f"{data[0]:02x}:{data[1]:02x}"
Phys(data) ==
  Hex02(data[1]) \o <<":">> \o Hex02(data[2])


cmd_str == "tx 15:70:00:00"

\* ---- state of main() ----------------------------------------------------------

VARIABLES
  pc,                   \* "read": at the for of line 115, waiting for a line;
                        \* "body": at line 120 with the line read;
                        \* "except", "finally", "exited"
  line,                 \* the line read last, empty before the first
  now,                  \* time.time()
  pending,              \* None or [la, phys, deadline]
  last_injection_time,
  DRY_RUN,              \* the configured flag
  stdin,                \* what was written to cec-client and when, in order
  announced,            \* console announcements accepted so far
  log                   \* what became of each announcement, as printed

vars ==
  <<pc, line, now, pending, last_injection_time, DRY_RUN, stdin, announced, log>>

Init ==
  /\ pc = "read"
  /\ line = <<>>
  /\ now = 0
  /\ pending = None
  /\ last_injection_time = 0
  /\ DRY_RUN \in BOOLEAN
  /\ stdin = <<>>
  /\ announced = 0
  /\ log = <<>>

\* one printed outcome of the announcement that is pending: "natural",
\* "superseded" or "skipped", and whether its deadline had passed
Outcome(what) ==
  [ann |-> announced, what |-> what, due |-> now >= pending.deadline]

\* one printed injection decision for the announcement that is pending: "sent",
\* "dryrun" or "failed", the time.time() it was taken at and the console
\* address the message names
Decision(what) ==
  [ann |-> announced, what |-> what, due |-> now >= pending.deadline, at |-> now,
   la |-> pending.la]

\* proc.stdin.write(text + "\n") and flush
Written(text) ==
  Append(stdin, [text |-> text, at |-> now])

\* ---- the clock ------------------------------------------------------------------

Tick ==
  /\ pc = "read"
  /\ now < MaxTime
  /\ now' = now + 1
  /\ UNCHANGED <<pc, line, pending, last_injection_time, DRY_RUN, stdin, announced, log>>

\* ---- the loop (lines 115-220) ---------------------------------------------------

\* the frame of the line in hand
frame ==
  Frames[line]

\* lines 152 and 157 on a line of the trace
IsConsoleAnnouncement(l) ==
  /\ Frames[l] # None
  /\ ~IsSetSystemAudioModeOn(Frames[l])
  /\ IsActiveSource(Frames[l])
  /\ Frames[l].src_la \in CONSOLE_LAS

\* lines 115-116: cec-client prints a line; at most MaxAnnouncements of them
\* are console announcements
ReadLine ==
  /\ pc = "read"
  /\ \E l \in Lines :
       /\ IsConsoleAnnouncement(l) => announced < MaxAnnouncements
       /\ line' = l
  /\ pc' = "body"
  /\ UNCHANGED <<now, pending, last_injection_time, DRY_RUN, stdin, announced, log>>

\* lines 120-123
NotAFrame ==
  /\ pc = "body"
  /\ frame = None
  /\ pc' = "read"
  /\ UNCHANGED <<line, now, pending, last_injection_time, DRY_RUN, stdin, announced, log>>

\* lines 140-147 without the assignment of line 147
ClearIfPending_KeepsPending ==
  IF pending # None
  THEN /\ log' = Append(log, Outcome("natural"))
       /\ UNCHANGED pending
  ELSE UNCHANGED <<pending, log>>

\* lines 140-147
ClearIfPending ==
  IF pending # None
  THEN /\ pending' = None
       /\ log' = Append(log, Outcome("natural"))
  ELSE UNCHANGED <<pending, log>>

\* lines 127-149
SetSystemAudioModeOn ==
  /\ pc = "body"
  /\ frame # None
  /\ IsSetSystemAudioModeOn(frame)
  /\ ClearIfPending
  /\ pc' = "read"
  /\ UNCHANGED <<line, now, last_injection_time, DRY_RUN, stdin, announced>>

\* lines 153 and 166-170
NewPending ==
  [la       |-> frame.src_la,
   phys     |-> Phys(frame.data),
   deadline |-> now + PENDING_TIMEOUT_SEC]

\* lines 151-170 keeping a pending that is already there
ActiveSourceConsole_FirstWins ==
  /\ pc = "body"
  /\ frame # None
  /\ ~IsSetSystemAudioModeOn(frame)
  /\ IsActiveSource(frame)
  /\ frame.src_la \in CONSOLE_LAS
  /\ pending' = IF pending # None THEN pending ELSE NewPending
  /\ announced' = announced + 1
  /\ log' = IF pending # None THEN Append(log, Outcome("superseded")) ELSE log
  /\ pc' = "read"
  /\ UNCHANGED <<line, now, last_injection_time, DRY_RUN, stdin>>

\* lines 151-170 and 179
ActiveSourceConsole ==
  /\ pc = "body"
  /\ frame # None
  /\ ~IsSetSystemAudioModeOn(frame)
  /\ IsActiveSource(frame)
  /\ frame.src_la \in CONSOLE_LAS
  /\ pending' = NewPending
  /\ announced' = announced + 1
  /\ log' = IF pending # None THEN Append(log, Outcome("superseded")) ELSE log
  /\ pc' = "read"
  /\ UNCHANGED <<line, now, last_injection_time, DRY_RUN, stdin>>

\* lines 151-179 without the test of line 157
ActiveSourceOther_Accepts ==
  /\ pc = "body"
  /\ frame # None
  /\ ~IsSetSystemAudioModeOn(frame)
  /\ IsActiveSource(frame)
  /\ frame.src_la \notin CONSOLE_LAS
  /\ pending' = NewPending
  /\ pc' = "read"
  /\ UNCHANGED <<line, now, last_injection_time, DRY_RUN, stdin, announced, log>>

\* lines 151-157 and 171-179
ActiveSourceOther ==
  /\ pc = "body"
  /\ frame # None
  /\ ~IsSetSystemAudioModeOn(frame)
  /\ IsActiveSource(frame)
  /\ frame.src_la \notin CONSOLE_LAS
  /\ pc' = "read"
  /\ UNCHANGED <<line, now, pending, last_injection_time, DRY_RUN, stdin, announced, log>>

\* a frame that reaches the timeout check of line 181
OtherFrame ==
  /\ pc = "body"
  /\ frame # None
  /\ ~IsSetSystemAudioModeOn(frame)
  /\ ~IsActiveSource(frame)

\* line 183 without the comparison with the deadline
Due_IgnoresDeadline ==
  pending # None

\* line 183
Due ==
  pending # None /\ now >= pending.deadline

\* line 189
RateLimited ==
  now - last_injection_time < MIN_INJECTION_INTERVAL_SEC

\* line 183 false
TimeoutNotDue ==
  /\ OtherFrame
  /\ ~Due
  /\ pc' = "read"
  /\ UNCHANGED <<line, now, pending, last_injection_time, DRY_RUN, stdin, announced, log>>

\* lines 183-194 without the assignment of line 194
TimeoutRateLimited_Queues ==
  /\ OtherFrame
  /\ Due
  /\ RateLimited
  /\ log' = Append(log, Outcome("skipped"))
  /\ pc' = "read"
  /\ UNCHANGED <<line, now, pending, last_injection_time, DRY_RUN, stdin, announced>>

\* lines 183-194
TimeoutRateLimited ==
  /\ OtherFrame
  /\ Due
  /\ RateLimited
  /\ pending' = None
  /\ log' = Append(log, Outcome("skipped"))
  /\ pc' = "read"
  /\ UNCHANGED <<line, now, last_injection_time, DRY_RUN, stdin, announced>>

\* lines 183-220 without the test of line 197
TimeoutDryRun_Writes ==
  /\ OtherFrame
  /\ Due
  /\ ~RateLimited
  /\ DRY_RUN
  /\ stdin' = Written(cmd_str)
  /\ pending' = None
  /\ log' = Append(log, Decision("dryrun"))
  /\ pc' = "read"
  /\ UNCHANGED <<line, now, last_injection_time, DRY_RUN, announced>>

\* lines 183-189, 195-201 and 220
TimeoutDryRun ==
  /\ OtherFrame
  /\ Due
  /\ ~RateLimited
  /\ DRY_RUN
  /\ pending' = None
  /\ log' = Append(log, Decision("dryrun"))
  /\ pc' = "read"
  /\ UNCHANGED <<line, now, last_injection_time, DRY_RUN, stdin, announced>>

\* the successful write without the assignment of line 210
TimeoutInject_NoStamp ==
  /\ OtherFrame
  /\ Due
  /\ ~RateLimited
  /\ ~DRY_RUN
  /\ stdin' = Written(cmd_str)
  /\ pending' = None
  /\ log' = Append(log, Decision("sent"))
  /\ pc' = "read"
  /\ UNCHANGED <<line, now, last_injection_time, DRY_RUN, announced>>

\* lines 196-210 with the command addressed from the console that timed out
TimeoutInject_PerConsole ==
  /\ OtherFrame
  /\ Due
  /\ ~RateLimited
  /\ ~DRY_RUN
  /\ stdin' = Written(IF pending.la = 11 THEN "tx b5:70:00:00" ELSE cmd_str)
  /\ last_injection_time' = now
  /\ pending' = None
  /\ log' = Append(log, Decision("sent"))
  /\ pc' = "read"
  /\ UNCHANGED <<line, now, DRY_RUN, announced>>

\* lines 183-189, 195-196, 202-210 and 220: the write and the flush succeed
TimeoutInject ==
  /\ OtherFrame
  /\ Due
  /\ ~RateLimited
  /\ ~DRY_RUN
  /\ stdin' = Written(cmd_str)
  /\ last_injection_time' = now
  /\ pending' = None
  /\ log' = Append(log, Decision("sent"))
  /\ pc' = "read"
  /\ UNCHANGED <<line, now, DRY_RUN, announced>>

\* BrokenPipeError without the break of line 217
TimeoutBrokenPipe_NoBreak ==
  /\ OtherFrame
  /\ Due
  /\ ~RateLimited
  /\ ~DRY_RUN
  /\ log' = Append(log, Decision("failed"))
  /\ pending' = None
  /\ pc' = "read"
  /\ UNCHANGED <<line, now, last_injection_time, DRY_RUN, stdin, announced>>

\* lines 183-189, 195-196, 202-208 and 211-217: BrokenPipeError, break
TimeoutBrokenPipe ==
  /\ OtherFrame
  /\ Due
  /\ ~RateLimited
  /\ ~DRY_RUN
  /\ log' = Append(log, Decision("failed"))
  /\ pc' = "finally"
  /\ UNCHANGED <<line, now, pending, last_injection_time, DRY_RUN, stdin, announced>>

\* lines 120-220 on the line in hand
Body ==
  \/ NotAFrame
  \/ SetSystemAudioModeOn
  \/ ActiveSourceConsole
  \/ ActiveSourceOther
  \/ TimeoutNotDue
  \/ TimeoutRateLimited
  \/ TimeoutDryRun
  \/ TimeoutInject
  \/ TimeoutBrokenPipe

\* ---- leaving the loop (lines 115 and 224-238) -----------------------------------

\* proc.stdout is at end of file
EndOfInput ==
  /\ pc = "read"
  /\ pc' = "finally"
  /\ UNCHANGED <<line, now, pending, last_injection_time, DRY_RUN, stdin, announced, log>>

\* Ctrl-C while the loop waits for a line
KeyboardInterrupt ==
  /\ pc = "read"
  /\ pc' = "except"
  /\ UNCHANGED <<line, now, pending, last_injection_time, DRY_RUN, stdin, announced, log>>

\* lines 224-225
ExceptHandler ==
  /\ pc = "except"
  /\ pc' = "finally"
  /\ UNCHANGED <<line, now, pending, last_injection_time, DRY_RUN, stdin, announced, log>>

\* lines 227-238 with an overdue pending confirmation acted on before "q"
Finally_FlushesPending ==
  /\ pc = "finally"
  /\ pc' = "exited"
  /\ stdin' = IF pending # None /\ now >= pending.deadline
              THEN Append(Written(cmd_str), [text |-> "q", at |-> now])
              ELSE Written("q")
  /\ UNCHANGED <<line, now, pending, last_injection_time, DRY_RUN, announced, log>>

\* lines 227-238: "q" is written if the pipe still takes it
Finally ==
  /\ pc = "finally"
  /\ pc' = "exited"
  /\ \E ok \in BOOLEAN : stdin' = IF ok THEN Written("q") ELSE stdin
  /\ UNCHANGED <<line, now, pending, last_injection_time, DRY_RUN, announced, log>>

Next ==
  \/ Tick
  \/ ReadLine
  \/ NotAFrame
  \/ SetSystemAudioModeOn
  \/ ActiveSourceConsole
  \/ ActiveSourceOther
  \/ TimeoutNotDue
  \/ TimeoutRateLimited
  \/ TimeoutDryRun
  \/ TimeoutInject
  \/ TimeoutBrokenPipe
  \/ EndOfInput
  \/ KeyboardInterrupt
  \/ ExceptHandler
  \/ Finally

Spec ==
  Init /\ [][Next]_vars

\* The clock keeps running, a line that was read is processed, and a loop that
\* was left runs its handlers.  Whether cec-client prints another line is up to
\* the bus: ReadLine is not fair.
FairSpec ==
  Spec /\ WF_vars(Tick) /\ WF_vars(Body) /\ WF_vars(ExceptHandler) /\ WF_vars(Finally)

\* ---- the loop on its first line, for every sample line ----------------------

\* lines 115-116: the first line cec-client prints is one of the sample lines
ReadFirstLine ==
  /\ pc = "read"
  /\ line = <<>>
  /\ \E l \in SampleLines : line' = l
  /\ pc' = "body"
  /\ UNCHANGED <<now, pending, last_injection_time, DRY_RUN, stdin, announced, log>>

\* lines 115-183 on that line; nothing is pending, so lines 184-220 are not run
ParseNext ==
  \/ ReadFirstLine
  \/ NotAFrame
  \/ SetSystemAudioModeOn
  \/ ActiveSourceConsole
  \/ ActiveSourceOther
  \/ TimeoutNotDue

ParseSpec ==
  Init /\ [][ParseNext]_vars

\* ---- what the claims speak of ---------------------------------------------------

\* the entries of the log that are injection decisions
IsDecision(e) ==
  e.what \in {"sent", "dryrun", "failed"}

\* the corrective commands among what was written
Injections ==
  SelectSeq(stdin, LAMBDA w : w.text = cmd_str)

\* ---- C1 ---------------------------------------------------------------------------

\* C1: a pending confirmation whose deadline the clock has reached leads to its
\* timeout being processed (the pending is cleared), unless a console
\* announcement replaces it or the loop is left, even if cec-client prints no
\* further line.
C1_DeadlineHonouredOnQuietBus ==
  \A k \in 1..MaxAnnouncements :
    (pc = "read" /\ announced = k /\ Due)
      ~> (pending = None \/ announced # k \/ pc \notin {"read", "body"})

\* ---- C2 ---------------------------------------------------------------------------

\* C2: any two corrective commands written are at least
\* MIN_INJECTION_INTERVAL_SEC apart, and no injection decision of any kind is
\* taken less than that after a command was written, whatever was announced,
\* skipped or confirmed in between.
C2_RateLimit ==
  /\ \A i, j \in DOMAIN Injections :
       i < j => Injections[j].at - Injections[i].at >= MIN_INJECTION_INTERVAL_SEC
  /\ \A i, j \in DOMAIN log :
       (i < j /\ log[i].what = "sent" /\ IsDecision(log[j]))
         => log[j].at - log[i].at >= MIN_INJECTION_INTERVAL_SEC

\* a command was written and the next announcement's timeout, processed inside
\* the window, wrote nothing
C2_Witness ==
  /\ Len(log) = 2
  /\ log[1].what = "sent"
  /\ log[2].what = "skipped"
  /\ Len(Injections) = 1
  /\ pc = "read"
  /\ now > Injections[1].at
  /\ now - Injections[1].at < MIN_INJECTION_INTERVAL_SEC

\* ---- C3 ---------------------------------------------------------------------------

\* C3: an announcement that the Denon confirmed before its deadline leaves no
\* pending confirmation behind (Idle until the next announcement) and never
\* gets an injection decision.
C3_NaturalConfirmation ==
  \A i \in DOMAIN log :
    (log[i].what = "natural" /\ ~log[i].due)
      => /\ announced = log[i].ann => pending = None
         /\ \A j \in DOMAIN log : IsDecision(log[j]) => log[j].ann # log[i].ann

\* the Denon confirmed announcement 1 in time, and a later frame ran the
\* timeout check after that
C3_Witness ==
  /\ log = <<[ann |-> 1, what |-> "natural", due |-> FALSE]>>
  /\ announced = 1
  /\ pending = None
  /\ pc = "read"
  /\ line = LineDenonOff
  /\ now > PENDING_TIMEOUT_SEC
  /\ stdin = <<>>

\* ---- C4 ---------------------------------------------------------------------------

\* C4: processing an Active Source frame whose source is not one of the
\* console addresses 4, 8, 11 changes neither the pending slot nor
\* last_injection_time, writes nothing and counts as no announcement.
C4_NonConsoleAnnouncementIsNoOp ==
  [][(/\ pc = "body"
      /\ frame # None
      /\ frame.dst_la = 15
      /\ frame.opcode = 130
      /\ Len(frame.data) >= 2
      /\ frame.src_la \notin {4, 8, 11})
       => /\ UNCHANGED <<pending, last_injection_time, stdin, announced, log>>
          /\ pc' = "read"]_vars

\* the TV announced itself while a console's confirmation was pending and
\* overdue: the pending is still there
C4_Witness ==
  /\ pc = "read"
  /\ line = LineTvActive
  /\ pending # None
  /\ now >= pending.deadline

\* ---- C5 ---------------------------------------------------------------------------

\* no announcement that was superseded has an injection decision, and no
\* announcement has two
SupersededNeverInjected ==
  /\ \A i, j \in DOMAIN log :
       log[i].what = "superseded" => ~(IsDecision(log[j]) /\ log[j].ann = log[i].ann)
  /\ \A i, j \in DOMAIN log :
       (i < j /\ IsDecision(log[i]) /\ IsDecision(log[j])) => log[i].ann # log[j].ann

\* C5: a console announcement processed while another is pending replaces it:
\* the one pending slot then carries the second announcement's address,
\* physical address and deadline (its own time plus PENDING_TIMEOUT_SEC), the
\* first announcement never gets an injection decision and the second at most
\* one.
C5_Supersession ==
  [][/\ (/\ pc = "body"
         /\ frame # None
         /\ frame.dst_la = 15
         /\ frame.opcode = 130
         /\ Len(frame.data) >= 2
         /\ frame.src_la \in {4, 8, 11}
         /\ pending # None)
          => /\ pending' = [la       |-> frame.src_la,
                            phys     |-> Phys(frame.data),
                            deadline |-> now + PENDING_TIMEOUT_SEC]
             /\ announced' = announced + 1
             /\ UNCHANGED <<stdin, last_injection_time>>
     /\ SupersededNeverInjected']_vars

\* console 4 was superseded by console B before its deadline, and the one
\* command written was for console B
C5_Witness ==
  /\ Len(log) = 2
  /\ log[1] = [ann |-> 1, what |-> "superseded", due |-> FALSE]
  /\ log[2].what = "sent"
  /\ log[2].ann = 2
  /\ Len(Injections) = 1
  /\ line = LineDenonOff

\* ---- C6 ---------------------------------------------------------------------------

\* an announcement whose timeout was skipped has no injection decision, and
\* nothing is pending for it
SkippedNeverInjected ==
  \A i \in DOMAIN log :
    log[i].what = "skipped"
      => /\ announced = log[i].ann => pending = None
         /\ \A j \in DOMAIN log : IsDecision(log[j]) => log[j].ann # log[i].ann

\* C6: a timeout processed less than MIN_INJECTION_INTERVAL_SEC after
\* last_injection_time clears the pending, writes nothing, leaves
\* last_injection_time alone, and the announcement never gets an injection
\* decision later.
C6_RateLimitedTimeoutDropped ==
  [][/\ (/\ pc = "body"
         /\ frame # None
         /\ ~IsSetSystemAudioModeOn(frame)
         /\ ~IsActiveSource(frame)
         /\ pending # None
         /\ now >= pending.deadline
         /\ now - last_injection_time < MIN_INJECTION_INTERVAL_SEC)
          => /\ pending' = None
             /\ pc' = "read"
             /\ UNCHANGED <<stdin, last_injection_time, announced>>
     /\ SkippedNeverInjected']_vars

\* a command was written, the next announcement's timeout was skipped, and the
\* window has since passed without anything more being written
C6_Witness ==
  /\ Len(log) = 2
  /\ log[1].what = "sent"
  /\ log[2].what = "skipped"
  /\ now >= log[1].at + MIN_INJECTION_INTERVAL_SEC
  /\ line = LineDenonOff
  /\ pc = "read"
  /\ pending = None
  /\ Len(stdin) = 1

\* ---- C7 ---------------------------------------------------------------------------

\* the frame grammar: ">>", whitespace, two hex digits, ":", two hex digits,
\* somewhere in the text
FrameGrammar(text) ==
  \E i \in 1..Len(text) : \E h \in (i + 3)..(Len(text) - 4) :
    /\ text[i] = ">"
    /\ text[i + 1] = ">"
    /\ \A k \in (i + 2)..(h - 1) : IsSpace(text[k])
    /\ IsHex(text[h])
    /\ IsHex(text[h + 1])
    /\ text[h + 2] = ":"
    /\ IsHex(text[h + 3])
    /\ IsHex(text[h + 4])

\* C7: for a line that does not match the frame grammar parse_frame returns
\* None, and processing it changes neither the pending slot nor
\* last_injection_time and writes nothing.
C7_NonFrameLineIsNoOp ==
  [][(pc = "body" /\ ~FrameGrammar(line))
       => /\ frame = None
          /\ UNCHANGED <<pending, last_injection_time, stdin, announced, log>>
          /\ pc' = "read"]_vars

\* ">>4f:82:10:00" was read while a confirmation was pending and overdue
C7_Witness ==
  /\ pc = "read"
  /\ line = LineNoSpace
  /\ pending # None
  /\ now >= pending.deadline

\* ---- C8 ---------------------------------------------------------------------------

\* C8: processing a frame that is neither Set System Audio Mode on nor Active
\* Source changes neither the pending slot nor last_injection_time and writes
\* nothing.
C8_IrrelevantFrameIsNoOp ==
  [][(/\ pc = "body"
      /\ frame # None
      /\ ~IsSetSystemAudioModeOn(frame)
      /\ ~IsActiveSource(frame))
       => UNCHANGED <<pending, last_injection_time, stdin>>]_vars

\* ---- C9 ---------------------------------------------------------------------------

HasFailed ==
  \E i \in DOMAIN log : log[i].what = "failed"

\* C9: the step in which the write fails leaves the loop without advancing
\* last_injection_time, and from then on no line is read or processed and no
\* corrective command is written or attempted.
C9_WriteFailureIsFatal ==
  [][/\ HasFailed'
          => /\ pc' \in {"finally", "exited"}
             /\ last_injection_time' = last_injection_time
             /\ Injections' = Injections
     /\ HasFailed
          => UNCHANGED <<line, log, pending>>]_vars

\* the write for announcement 1 failed and main() has returned
C9_Witness ==
  /\ HasFailed
  /\ pc = "exited"
  /\ pending # None
  /\ last_injection_time = 0
  /\ Injections = <<>>

\* ---- C10 --------------------------------------------------------------------------

\* C10: a corrective command is written only in a step that starts with a
\* pending confirmation whose deadline has been reached, one command per such
\* step, and that step clears the pending; so the commands written never
\* outnumber the console announcements accepted.
C10_InjectionOnlyOnTimeout ==
  [][/\ Injections' # Injections
          => /\ pending # None
             /\ now >= pending.deadline
             /\ pending' = None
             /\ Len(Injections') = Len(Injections) + 1
     /\ Len(Injections') <= announced']_vars

\* one command written for the one announcement, exactly at its deadline
C10_Witness ==
  /\ announced = 1
  /\ Len(Injections) = 1
  /\ Len(log) = 1
  /\ log[1].what = "sent"
  /\ log[1].at = Injections[1].at
  /\ pending = None

\* ---- C11 --------------------------------------------------------------------------

\* C11: with DRY_RUN set the corrective command is never written, and a
\* timeout that is processed (deadline reached, loop not left) still clears
\* the pending confirmation.
C11_DryRunWritesNothing ==
  [][DRY_RUN
       => /\ \A i \in DOMAIN stdin' : stdin'[i].text # "tx 15:70:00:00"
          /\ (/\ pc = "body"
              /\ frame # None
              /\ ~IsSetSystemAudioModeOn(frame)
              /\ ~IsActiveSource(frame)
              /\ pending # None
              /\ now >= pending.deadline)
               => pending' = None /\ stdin' = stdin]_vars

\* a dry run decided to inject once the window allowed it: nothing was
\* written and nothing is pending
C11_Witness ==
  /\ DRY_RUN
  /\ Len(log) = 1
  /\ log[1].what = "dryrun"
  /\ pending = None
  /\ stdin = <<>>
  /\ pc = "read"

\* ---- C12 --------------------------------------------------------------------------

\* C12: whatever the loop body writes to cec-client is the one line
\* "tx 15:70:00:00", whichever console the pending confirmation named.
C12_CommandIsConstant ==
  [][(pc = "body" /\ stdin' # stdin)
       => stdin' = Append(stdin, [text |-> "tx 15:70:00:00", at |-> now])]_vars

\* two commands were written, the first for console 4 and the second for
\* console B
C12_Witness ==
  /\ Len(log) = 2
  /\ log[1].what = "sent"
  /\ log[1].la = 4
  /\ log[2].what = "sent"
  /\ log[2].la = 11
  /\ Len(stdin) = 2
  /\ stdin[1].text = stdin[2].text

\* ---- C13 --------------------------------------------------------------------------

\* C13: for every header byte h in 0..255, spelled with digits of either
\* case in a line of the frame grammar, parse_frame gives h >> 4 as the source
\* address and h & 0xF as the destination address, both within 0..15.
C13_HeaderNibbles ==
  (pc = "body" /\ line \in HeaderLines)
    => \A h \in 0..255 :
         (/\ line[4] \in {HexLower[(h \div 16) + 1], HexUpper[(h \div 16) + 1]}
          /\ line[5] \in {HexLower[(h % 16) + 1], HexUpper[(h % 16) + 1]})
           => /\ frame # None
              /\ frame.src_la = h \div 16
              /\ frame.dst_la = h % 16
              /\ frame.src_la \in 0..15
              /\ frame.dst_la \in 0..15

\* the header bF, in mixed case, parsed as source 11 and destination 15
C13_Witness ==
  /\ pc = "body"
  /\ line = Marker \o <<"b", "F">> \o TailActive
  /\ frame # None
  /\ frame.src_la = 11
  /\ frame.dst_la = 15

\* ---- C16 --------------------------------------------------------------------------

\* C16: every parsed frame is handled as exactly one of three kinds. It is
\* handled as Set System Audio Mode on exactly when source = 5, destination =
\* 15, opcode = 0x72 and the payload starts with 0x01; as an Active Source
\* announcement exactly when destination = 15, opcode = 0x82 and the payload
\* has two bytes or more; as an irrelevant frame in every other case.
C16_Classification ==
  (pc = "body" /\ frame # None)
    => LET isOn      == /\ frame.src_la = 5
                        /\ frame.dst_la = 15
                        /\ frame.opcode = 114
                        /\ Len(frame.data) >= 1
                        /\ frame.data[1] = 1
           isActive  == /\ frame.dst_la = 15
                        /\ frame.opcode = 130
                        /\ Len(frame.data) >= 2
           asOn      == ENABLED SetSystemAudioModeOn
           asActive  == ENABLED (ActiveSourceConsole \/ ActiveSourceOther)
           asOther   == ENABLED (\/ TimeoutNotDue
                                 \/ TimeoutRateLimited
                                 \/ TimeoutDryRun
                                 \/ TimeoutInject
                                 \/ TimeoutBrokenPipe)
       IN  /\ asOn <=> isOn
           /\ asActive <=> isActive
           /\ asOther <=> (~isOn /\ ~isActive)
           /\ ~(asOn /\ asActive)
           /\ ~(asOn /\ asOther)
           /\ ~(asActive /\ asOther)
           /\ asOn \/ asActive \/ asOther

\* ">> 5f:72", a 0x72 from the receiver with no payload, is handled as an
\* irrelevant frame
C16_Witness ==
  /\ pc = "body"
  /\ line = LineDenonBare
  /\ frame # None
  /\ frame.data = <<>>
  /\ ENABLED TimeoutNotDue
  /\ ~ENABLED SetSystemAudioModeOn

\* ---- C17 --------------------------------------------------------------------------

\* C17: in every line parse_frame accepts, each payload element is within
\* 0..255 and there is one element for each colon-delimited token after the
\* opcode, so no token is dropped.
C17_PayloadBytes ==
  (pc = "body" /\ frame # None)
    => LET raw    == DataRaw(line, SearchFrom(line, 1))
           tokens == IF raw = <<>> THEN 0
                     ELSE Cardinality({i \in DOMAIN raw : raw[i] = ":"}) + 1
       IN  /\ \A i \in DOMAIN frame.data : frame.data[i] \in 0..255
           /\ Len(frame.data) = tokens

\* ---- C14 --------------------------------------------------------------------------

\* C14: a timeout processed at or after the deadline with the rate limit
\* satisfied clears the pending confirmation, records the injection decision
\* and sets last_injection_time to now in that same step, whether DRY_RUN is
\* set or not (the step of a failed write, which leaves the loop, aside); so
\* any two injection decisions, written or only logged, are at least
\* MIN_INJECTION_INTERVAL_SEC apart.
C14_DecisionStampsClock ==
  [][/\ (/\ pc = "body"
         /\ frame # None
         /\ ~IsSetSystemAudioModeOn(frame)
         /\ ~IsActiveSource(frame)
         /\ pending # None
         /\ now >= pending.deadline
         /\ now - last_injection_time >= MIN_INJECTION_INTERVAL_SEC
         /\ pc' = "read")
          => /\ pending' = None
             /\ Len(log') = Len(log) + 1
             /\ log'[Len(log')].what \in {"sent", "dryrun"}
             /\ last_injection_time' = now
     /\ \A i, j \in DOMAIN log' :
          (/\ i < j
           /\ log'[i].what \in {"sent", "dryrun"}
           /\ log'[j].what \in {"sent", "dryrun"})
            => log'[j].at - log'[i].at >= MIN_INJECTION_INTERVAL_SEC]_vars

\* ---- C15 --------------------------------------------------------------------------

\* C15: a live pending confirmation is removed or replaced only by (a) a Set
\* System Audio Mode on frame processed before its deadline, (b) the timeout
\* check at or after its deadline, or (c) an Active Source announcement of a
\* console; a Set System Audio Mode on frame processed once the deadline has
\* passed leaves the pending confirmation to the timeout check.
C15_PendingLifecycle ==
  [][(pending # None /\ pending' # pending)
       => /\ pc = "body"
          /\ frame # None
          /\ \/ /\ IsSetSystemAudioModeOn(frame)
                /\ now < pending.deadline
                /\ pending' = None
             \/ /\ ~IsSetSystemAudioModeOn(frame)
                /\ ~IsActiveSource(frame)
                /\ now >= pending.deadline
                /\ pending' = None
             \/ /\ ~IsSetSystemAudioModeOn(frame)
                /\ IsActiveSource(frame)
                /\ frame.src_la \in {4, 8, 11}
                /\ pending' # None]_vars

\* ---- C18 --------------------------------------------------------------------------

\* C18: at end of input the loop is left for good; from that step on no
\* "tx 15:70:00:00" is written and no decision is taken, even with a pending
\* confirmation still live, and the state is left as it is while the
\* shutdown writes at most "q".
C18_EndOfInputStopsTheLoop ==
  [][(\/ pc = "read" /\ pc' = "finally"
      \/ pc \in {"except", "finally", "exited"})
       => /\ pc' \in {"finally", "exited"}
          /\ \A i \in DOMAIN stdin' :
               i > Len(stdin) => stdin'[i].text # "tx 15:70:00:00"
          /\ Len(stdin') >= Len(stdin)
          /\ pending' = pending
          /\ last_injection_time' = last_injection_time
          /\ log' = log]_vars

\* the program has exited with an overdue pending confirmation that was never
\* decided on; only "q" was written
C18_Witness ==
  /\ pc = "exited"
  /\ pending # None
  /\ now >= pending.deadline
  /\ log = <<>>
  /\ Len(stdin) = 1
  /\ stdin[1].text = "q"

\* ---- C19 --------------------------------------------------------------------------

C20_FirstTimeoutNotRateLimited ==
  \A i \in DOMAIN log :
    log[i].what = "skipped" => \E j \in 1..(i - 1) : log[j].what = "sent"

====
